---- MODULE Spec2Model ----
(***************************************************************************)
(* Model of demo_ntp: the byte codec (codec.rs), the field types           *)
(* (types.rs), the 48-byte packet header (ntp_message_protocol.rs) and the *)
(* single request/response exchange of NtpClient::get_offset (client.rs).  *)
(*                                                                         *)
(* Number representation.  A byte, an u8 and an u16 are naturals.  An i8   *)
(* is an integer in -128..127.  A 32-bit value is a pair and a 64-bit      *)
(* value a 4-tuple of 16-bit limbs, most significant limb first, so that   *)
(* every bit of the full width is represented.  An i32 is the pair of      *)
(* limbs of its two's-complement bit pattern.                              *)
(***************************************************************************)
EXTENDS Integers, Sequences, FiniteSets, TLC

VARIABLES value, bytes, before, wr, rd, rdsrc, conv, back, dest, wb,
          pc, buffer, serialized_size, send_time, recv_time, recv_size,
          packet, outcome, wire, reply, log

codecVars == <<value, bytes, before, wr, rd, rdsrc, conv, back, dest, wb>>
clientVars == <<pc, buffer, serialized_size, send_time, recv_time, recv_size,
                packet, outcome, wire, reply, log>>
vars == <<codecVars, clientVars>>

(***************************************************************************)
(* Bounds of the model.                                                    *)
(***************************************************************************)
\* Longest destination / source buffer handed to the codec.
MaxBufLen == 50
\* Largest reading of the local clock, in seconds since UNIX_EPOCH.
MaxTime == 10

(***************************************************************************)
(* Rust integer operators at the widths the code uses them.                *)
(***************************************************************************)
RECURSIVE BitAnd(_, _)
BitAnd(a, b) ==
    IF a = 0 \/ b = 0 THEN 0
    ELSE (a % 2) * (b % 2) + 2 * BitAnd(a \div 2, b \div 2)

RECURSIVE BitOr(_, _)
BitOr(a, b) ==
    IF a = 0 THEN b
    ELSE IF b = 0 THEN a
    ELSE (IF (a % 2) + (b % 2) > 0 THEN 1 ELSE 0) + 2 * BitOr(a \div 2, b \div 2)

\* u8 << k : the bits shifted out of the 8-bit width are lost.
Shl8(v, k) == (v * (2 ^ k)) % 256

\* Variant: the shift is left out.
Shr8_NoShift(v, k) == v

\* u8 >> k
Shr8(v, k) == v \div (2 ^ k)

\* u16::to_be_bytes / from_be_bytes
u16_to_be_bytes(v) == <<v \div 256, v % 256>>
\* Variant: the two bytes are taken in little-endian order.
u16_from_le_bytes(b) == b[2] * 256 + b[1]
u16_from_be_bytes(b) == b[1] * 256 + b[2]

\* u32::to_be_bytes / from_be_bytes (and i32, on the bit pattern)
u32_to_be_bytes(v) == u16_to_be_bytes(v[1]) \o u16_to_be_bytes(v[2])
u32_from_be_bytes(b) ==
    <<u16_from_be_bytes(<<b[1], b[2]>>), u16_from_be_bytes(<<b[3], b[4]>>)>>

\* Variant: little-endian byte order (to_le_bytes).
u64_to_le_bytes(v) ==
    <<v[4] % 256, v[4] \div 256, v[3] % 256, v[3] \div 256,
      v[2] % 256, v[2] \div 256, v[1] % 256, v[1] \div 256>>

\* u64::to_be_bytes / from_be_bytes
u64_to_be_bytes(v) ==
    u16_to_be_bytes(v[1]) \o u16_to_be_bytes(v[2]) \o
    u16_to_be_bytes(v[3]) \o u16_to_be_bytes(v[4])
u64_from_be_bytes(b) ==
    <<u16_from_be_bytes(<<b[1], b[2]>>), u16_from_be_bytes(<<b[3], b[4]>>),
      u16_from_be_bytes(<<b[5], b[6]>>), u16_from_be_bytes(<<b[7], b[8]>>)>>

\* i8 as u8 and u8 as i8 (two's complement, same width)
i8_as_u8(v) == v % 256
\* Variant: the byte is widened without its sign.
u8_as_i8_Unsigned(b) == b
u8_as_i8(b) == IF b >= 128 THEN b - 256 ELSE b

(***************************************************************************)
(* Results.  A write returns Ok(n) or Err(msg), or panics on an index out  *)
(* of the slice; in each case `bytes` is the destination as the call left  *)
(* it.  A read returns Ok((val, n)) or Err(msg).                           *)
(***************************************************************************)
BufferTooSmallMsg == "Buffer too small"
NotEnoughSpaceMsg == "Not enough space in buffer"

WOk(n, b) == [status |-> "ok", n |-> n, err |-> "", bytes |-> b]
WErr(msg, b) == [status |-> "err", n |-> 0, err |-> msg, bytes |-> b]
WPanic(b) == [status |-> "panic", n |-> 0, err |-> "", bytes |-> b]

ROk(v, n) == [status |-> "ok", val |-> <<v>>, n |-> n, err |-> ""]
RErr(msg) == [status |-> "err", val |-> <<>>, n |-> 0, err |-> msg]

\* bytes[i] = v for the consecutive indices 0, 1, ... of `vs`, in program
\* order: the stores that are inside the slice happen, the first one
\* outside it panics.
StoreEach(b, vs) ==
    LET k == IF Len(vs) < Len(b) THEN Len(vs) ELSE Len(b)
        stored == [i \in 1..Len(b) |-> IF i <= k THEN vs[i] ELSE b[i]]
    IN  IF Len(vs) <= Len(b) THEN WOk(Len(vs), stored) ELSE WPanic(stored)

(***************************************************************************)
(* codec.rs: primitives                                                    *)
(***************************************************************************)
u8_try_write_to_bytes(self, b) ==
    IF Len(b) < 1 THEN WErr(BufferTooSmallMsg, b) ELSE StoreEach(b, <<self>>)

u8_try_read_from_bytes(b) ==
    IF Len(b) < 1 THEN RErr(BufferTooSmallMsg) ELSE ROk(b[1], 1)

i8_try_write_to_bytes(self, b) ==
    IF Len(b) < 1 THEN WErr(BufferTooSmallMsg, b)
    ELSE StoreEach(b, <<i8_as_u8(self)>>)

i8_try_read_from_bytes(b) ==
    IF Len(b) < 1 THEN RErr(BufferTooSmallMsg) ELSE ROk(u8_as_i8(b[1]), 1)

u16_try_write_to_bytes(self, b) ==
    IF Len(b) < 2 THEN WErr(BufferTooSmallMsg, b)
    ELSE StoreEach(b, u16_to_be_bytes(self))

u16_try_read_from_bytes(b) ==
    IF Len(b) < 2 THEN RErr(BufferTooSmallMsg)
    ELSE ROk(u16_from_be_bytes(<<b[1], b[2]>>), 2)

\* Variant: the stores that fit are made before the length is checked.
u32_try_write_to_bytes_StoreFirst(self, b) ==
    IF Len(b) < 4 THEN WErr(BufferTooSmallMsg, StoreEach(b, u32_to_be_bytes(self)).bytes)
    ELSE StoreEach(b, u32_to_be_bytes(self))

u32_try_write_to_bytes(self, b) ==
    IF Len(b) < 4 THEN WErr(BufferTooSmallMsg, b)
    ELSE StoreEach(b, u32_to_be_bytes(self))

u32_try_read_from_bytes(b) ==
    IF Len(b) < 4 THEN RErr(BufferTooSmallMsg)
    ELSE ROk(u32_from_be_bytes(<<b[1], b[2], b[3], b[4]>>), 4)

i32_try_write_to_bytes(self, b) ==
    IF Len(b) < 4 THEN WErr(BufferTooSmallMsg, b)
    ELSE StoreEach(b, u32_to_be_bytes(self))

i32_try_read_from_bytes(b) ==
    IF Len(b) < 4 THEN RErr(BufferTooSmallMsg)
    ELSE ROk(u32_from_be_bytes(<<b[1], b[2], b[3], b[4]>>), 4)

\* The guard of the source is `bytes.len() < 4`, the stores go to bytes[0..8].
u64_try_write_to_bytes(self, b) ==
    IF Len(b) < 4 THEN WErr(BufferTooSmallMsg, b)
    ELSE StoreEach(b, u64_to_be_bytes(self))

u64_try_read_from_bytes(b) ==
    IF Len(b) < 8 THEN RErr(BufferTooSmallMsg)
    ELSE ROk(u64_from_be_bytes(<<b[1], b[2], b[3], b[4], b[5], b[6], b[7], b[8]>>), 8)

\* [u8; N], N = Len(self)
array_try_write_to_bytes(self, b) ==
    IF Len(b) < Len(self) THEN WErr(BufferTooSmallMsg, b)
    ELSE StoreEach(b, self)

array_try_read_from_bytes(N, b) ==
    IF Len(b) < N THEN RErr(BufferTooSmallMsg)
    ELSE ROk(SubSeq(b, 1, N), N)

(***************************************************************************)
(* types.rs: field types.  A tuple struct T(x) is the record [f0 |-> x].   *)
(***************************************************************************)
ValueOutOfRangeLeap == "Value out of range for leap"
ValueOutOfRangeVersion == "Value out of range for version"
ValueOutOfRangeMode == "Value out of range for mode"

Leap_try_from(v) ==
    IF v > 3 THEN RErr(ValueOutOfRangeLeap) ELSE ROk([f0 |-> v], 0)

u8_from_Leap(x) == x.f0

Version_try_from(v) ==
    IF v > 7 THEN RErr(ValueOutOfRangeVersion) ELSE ROk([f0 |-> v], 0)

u8_from_Version(x) == x.f0

\* Variant: the bound of the range check is off by one.
Mode_try_from_OffByOne(v) ==
    IF v > 8 THEN RErr(ValueOutOfRangeMode) ELSE ROk([f0 |-> v], 0)

Mode_try_from(v) ==
    IF v > 7 THEN RErr(ValueOutOfRangeMode) ELSE ROk([f0 |-> v], 0)

u8_from_Mode(x) == x.f0

NTP_LEAP_NO_WARNING == [f0 |-> 0]
NTP_VERSION_4 == [f0 |-> 4]
NTP_MODE_CLIENT == [f0 |-> 3]

\* Stratum::from(u8), Poll::from(i8), Precision::from(i8), RefId::from([u8; 4])
Stratum_from(v) == [f0 |-> v]
Poll_from(v) == [f0 |-> v]
Precision_from(v) == [f0 |-> v]
RefId_from(v) == [f0 |-> v]
Digest_from(v) == [f0 |-> v]

\* The `?` of a newtype's read: wrap the inner value of a successful read.
Wrap(r) == IF r.status = "ok" THEN ROk([f0 |-> r.val[1]], r.n) ELSE r

Stratum_try_write_to_bytes(self, b) == u8_try_write_to_bytes(self.f0, b)
Stratum_try_read_from_bytes(b) == Wrap(u8_try_read_from_bytes(b))

Poll_try_write_to_bytes(self, b) == i8_try_write_to_bytes(self.f0, b)
Poll_try_read_from_bytes(b) == Wrap(i8_try_read_from_bytes(b))

Precision_try_write_to_bytes(self, b) == i8_try_write_to_bytes(self.f0, b)
Precision_try_read_from_bytes(b) == Wrap(i8_try_read_from_bytes(b))

RefId_try_write_to_bytes(self, b) == array_try_write_to_bytes(self.f0, b)
RefId_try_read_from_bytes(b) == Wrap(array_try_read_from_bytes(4, b))

Digest_try_write_to_bytes(self, b) == array_try_write_to_bytes(self.f0, b)

\* NtpShort::new(seconds: u16, fraction: u16) =
\*     ((seconds as u32) << 16) | (fraction as u32)
NtpShort_new(seconds, fraction) ==
    LET s32 == <<0, seconds>>
        shifted == <<s32[2], 0>>
        f32 == <<0, fraction>>
    IN  [f0 |-> <<BitOr(shifted[1], f32[1]), BitOr(shifted[2], f32[2])>>]

NtpShort_try_write_to_bytes(self, b) == u32_try_write_to_bytes(self.f0, b)
NtpShort_try_read_from_bytes(b) == Wrap(u32_try_read_from_bytes(b))

\* NtpTimestamp::new(seconds: u32, fraction: u32) =
\*     ((seconds as u64) << 32) | (fraction as u64)
NtpTimestamp_new(seconds, fraction) ==
    LET s64 == <<0, 0, seconds[1], seconds[2]>>
        shifted == <<s64[3], s64[4], 0, 0>>
        f64 == <<0, 0, fraction[1], fraction[2]>>
    IN  [f0 |-> [i \in 1..4 |-> BitOr(shifted[i], f64[i])]]

NtpTimestamp_try_write_to_bytes(self, b) == u64_try_write_to_bytes(self.f0, b)
NtpTimestamp_try_read_from_bytes(b) == Wrap(u64_try_read_from_bytes(b))

(***************************************************************************)
(* ntp_message_protocol.rs: NtpPacketHeader                                *)
(***************************************************************************)
\* x.v.try_write_to_bytes(b) for a value of a primitive or field type; a
\* value x carries its type in x.ty.
field_try_write_to_bytes(x, b) ==
    CASE x.ty = "u8" -> u8_try_write_to_bytes(x.v, b)
      [] x.ty = "i8" -> i8_try_write_to_bytes(x.v, b)
      [] x.ty = "u16" -> u16_try_write_to_bytes(x.v, b)
      [] x.ty = "u32" -> u32_try_write_to_bytes(x.v, b)
      [] x.ty = "i32" -> i32_try_write_to_bytes(x.v, b)
      [] x.ty = "u64" -> u64_try_write_to_bytes(x.v, b)
      [] x.ty = "array" -> array_try_write_to_bytes(x.v, b)
      [] x.ty = "Stratum" -> Stratum_try_write_to_bytes(x.v, b)
      [] x.ty = "Poll" -> Poll_try_write_to_bytes(x.v, b)
      [] x.ty = "Precision" -> Precision_try_write_to_bytes(x.v, b)
      [] x.ty = "RefId" -> RefId_try_write_to_bytes(x.v, b)
      [] x.ty = "Digest" -> Digest_try_write_to_bytes(x.v, b)
      [] x.ty = "NtpShort" -> NtpShort_try_write_to_bytes(x.v, b)
      [] x.ty = "NtpTimestamp" -> NtpTimestamp_try_write_to_bytes(x.v, b)

\* T::try_read_from_bytes(b), T = x.ty a primitive or field type
field_try_read_from_bytes(x, b) ==
    CASE x.ty = "u8" -> u8_try_read_from_bytes(b)
      [] x.ty = "i8" -> i8_try_read_from_bytes(b)
      [] x.ty = "u16" -> u16_try_read_from_bytes(b)
      [] x.ty = "u32" -> u32_try_read_from_bytes(b)
      [] x.ty = "i32" -> i32_try_read_from_bytes(b)
      [] x.ty = "u64" -> u64_try_read_from_bytes(b)
      [] x.ty = "array" -> array_try_read_from_bytes(Len(x.v), b)
      [] x.ty = "Stratum" -> Stratum_try_read_from_bytes(b)
      [] x.ty = "Poll" -> Poll_try_read_from_bytes(b)
      [] x.ty = "Precision" -> Precision_try_read_from_bytes(b)
      [] x.ty = "RefId" -> RefId_try_read_from_bytes(b)
      [] x.ty = "NtpShort" -> NtpShort_try_read_from_bytes(b)
      [] x.ty = "NtpTimestamp" -> NtpTimestamp_try_read_from_bytes(b)

\* The result of the call so far `acc` followed by the field result `r`:
\* the `?` and the `total_bytes +=` of one field of the header write.
WriteThen(acc, r) ==
    [status |-> r.status,
     n |-> IF r.status = "ok" THEN acc.n + r.n ELSE 0,
     err |-> r.err,
     bytes |-> SubSeq(acc.bytes, 1, acc.n) \o r.bytes]

\* total_bytes += field.try_write_to_bytes(&mut bytes[total_bytes..])?
\* `acc` is the call so far, `ty` and `field` the type and value of the field.
WriteField(acc, ty, field) ==
    IF acc.status # "ok" THEN acc
    ELSE WriteThen(acc, field_try_write_to_bytes(
                           [ty |-> ty, v |-> field],
                           SubSeq(acc.bytes, acc.n + 1, Len(acc.bytes))))

NtpPacketHeader_try_write_to_bytes(self, b) ==
    IF b = <<>> THEN WErr(NotEnoughSpaceMsg, b)
    ELSE
    LET byte0 == BitOr(BitOr(Shl8(u8_from_Leap(self.leap_indicator), 6),
                             Shl8(u8_from_Version(self.version_number), 3)),
                       u8_from_Mode(self.mode))
        a0  == WOk(1, [b EXCEPT ![1] = byte0])
        a1  == WriteField(a0, "Stratum", self.stratum)
        a2  == WriteField(a1, "Poll", self.poll)
        a3  == WriteField(a2, "Precision", self.precision)
        a4  == WriteField(a3, "NtpShort", self.rootdelay)
        a5  == WriteField(a4, "NtpShort", self.rootdisp)
        a6  == WriteField(a5, "RefId", self.refid)
        a7  == WriteField(a6, "NtpTimestamp", self.reftime)
        a8  == WriteField(a7, "NtpTimestamp", self.org)
        a9  == WriteField(a8, "NtpTimestamp", self.rec)
        a10 == WriteField(a9, "NtpTimestamp", self.xmt)
    IN  a10

\* The fields read so far `acc` followed by the field result `r`, bound to
\* `name`: the `?` and the `total_bytes += size` of one field of the read.
ReadThen(acc, name, r) ==
    IF r.status # "ok" THEN RErr(r.err)
    ELSE ROk([k \in (DOMAIN acc.val[1]) \cup {name} |->
                 IF k = name THEN r.val[1] ELSE acc.val[1][k]],
             acc.n + r.n)

\* let (field, size) = T::try_read_from_bytes(&bytes[total_bytes..])?;
\* total_bytes += size;
ReadField(acc, name, ty, b) ==
    IF acc.status # "ok" THEN acc
    ELSE ReadThen(acc, name, field_try_read_from_bytes(
                                [ty |-> ty, v |-> 0],
                                SubSeq(b, acc.n + 1, Len(b))))

NtpPacketHeader_try_read_from_bytes(b) ==
    IF b = <<>> THEN RErr(NotEnoughSpaceMsg)
    ELSE
    LET l == Leap_try_from(Shr8(BitAnd(b[1], 192), 6))
        v == Version_try_from(Shr8(BitAnd(b[1], 56), 3))
        m == Mode_try_from(BitAnd(b[1], 7))
    IN  IF l.status # "ok" THEN RErr(l.err)
        ELSE IF v.status # "ok" THEN RErr(v.err)
        ELSE IF m.status # "ok" THEN RErr(m.err)
        ELSE
        LET a0  == ROk([leap_indicator |-> l.val[1],
                        version_number |-> v.val[1],
                        mode |-> m.val[1]], 1)
            a1  == ReadField(a0, "stratum", "Stratum", b)
            a2  == ReadField(a1, "poll", "Poll", b)
            a3  == ReadField(a2, "precision", "Precision", b)
            a4  == ReadField(a3, "rootdelay", "NtpShort", b)
            a5  == ReadField(a4, "rootdisp", "NtpShort", b)
            a6  == ReadField(a5, "refid", "RefId", b)
            a7  == ReadField(a6, "reftime", "NtpTimestamp", b)
            a8  == ReadField(a7, "org", "NtpTimestamp", b)
            a9  == ReadField(a8, "rec", "NtpTimestamp", b)
            a10 == ReadField(a9, "xmt", "NtpTimestamp", b)
        IN  a10

(***************************************************************************)
(* Inputs of the codec: values of every type that implements the codec,    *)
(* tagged with the type, and buffers of every length up to MaxBufLen.      *)
(***************************************************************************)
U8Values == {0, 35, 255}
I8Values == {-128, -18, 0, 6, 127}
U16Values == {0, 1, 100, 65535}
U32Values == {<<0, 0>>, <<1, 0>>, <<4660, 22136>>, <<65535, 65535>>}
U64Values == {<<0, 0, 0, 0>>, <<0, 100, 0, 500>>, <<258, 772, 1286, 1800>>,
              <<65535, 65535, 65535, 65535>>}
Array4Values == {<<0, 0, 0, 0>>, <<1, 2, 3, 4>>, <<255, 254, 253, 252>>}
Array16Values == {[i \in 1..16 |-> 16 * i - 1]}

\* The fields of a header after the first byte.
Profiles ==
    { [stratum |-> Stratum_from(0), poll |-> Poll_from(0),
       precision |-> Precision_from(0),
       rootdelay |-> NtpShort_new(0, 0), rootdisp |-> NtpShort_new(0, 0),
       refid |-> RefId_from(<<0, 0, 0, 0>>),
       reftime |-> NtpTimestamp_new(<<0, 0>>, <<0, 0>>),
       org |-> NtpTimestamp_new(<<0, 0>>, <<0, 0>>),
       rec |-> NtpTimestamp_new(<<0, 0>>, <<0, 0>>),
       xmt |-> NtpTimestamp_new(<<0, 0>>, <<0, 0>>)],
      [stratum |-> Stratum_from(1), poll |-> Poll_from(6),
       precision |-> Precision_from(-18),
       rootdelay |-> NtpShort_new(1, 0), rootdisp |-> NtpShort_new(0, 100),
       refid |-> RefId_from(<<1, 2, 3, 4>>),
       reftime |-> NtpTimestamp_new(<<0, 100>>, <<0, 500>>),
       org |-> NtpTimestamp_new(<<0, 200>>, <<0, 200>>),
       rec |-> NtpTimestamp_new(<<0, 50>>, <<0, 100>>),
       xmt |-> NtpTimestamp_new(<<0, 10>>, <<0, 1000>>)],
      [stratum |-> Stratum_from(255), poll |-> Poll_from(-128),
       precision |-> Precision_from(-1),
       rootdelay |-> NtpShort_new(65535, 65535),
       rootdisp |-> NtpShort_new(65535, 65535),
       refid |-> RefId_from(<<255, 255, 255, 255>>),
       reftime |-> NtpTimestamp_new(<<65535, 65535>>, <<65535, 65535>>),
       org |-> NtpTimestamp_new(<<65535, 65535>>, <<65535, 65535>>),
       rec |-> NtpTimestamp_new(<<65535, 65535>>, <<65535, 65535>>),
       xmt |-> NtpTimestamp_new(<<65535, 65535>>, <<65535, 65535>>)],
      [stratum |-> Stratum_from(16), poll |-> Poll_from(127),
       precision |-> Precision_from(-128),
       rootdelay |-> NtpShort_new(4660, 22136),
       rootdisp |-> NtpShort_new(39612, 57072),
       refid |-> RefId_from(<<71, 80, 83, 0>>),
       reftime |-> NtpTimestamp_new(<<57005, 48879>>, <<258, 772>>),
       org |-> NtpTimestamp_new(<<4386, 13124>>, <<21862, 30600>>),
       rec |-> NtpTimestamp_new(<<59580, 1>>, <<32768, 0>>),
       xmt |-> NtpTimestamp_new(<<59580, 2>>, <<0, 32768>>)] }

Header(l, v, m, p) ==
    [leap_indicator |-> Leap_try_from(l).val[1],
     version_number |-> Version_try_from(v).val[1],
     mode |-> Mode_try_from(m).val[1],
     stratum |-> p.stratum, poll |-> p.poll, precision |-> p.precision,
     rootdelay |-> p.rootdelay, rootdisp |-> p.rootdisp, refid |-> p.refid,
     reftime |-> p.reftime, org |-> p.org, rec |-> p.rec, xmt |-> p.xmt]

\* Every leap/version/mode with the profile of the repository's tests, and
\* every profile with a few leap/version/mode.
HeaderValues ==
    { Header(l, v, m, p) : l \in 0..3, v \in 0..7, m \in 0..7,
                           p \in {q \in Profiles : q.stratum.f0 = 1} }
    \cup { Header(l, 4, m, p) : l \in {0, 3}, m \in {3, 4}, p \in Profiles }

Tag(ty, S) == { [ty |-> ty, v |-> x] : x \in S }

\* The values of each type that implements TryWriteToBytes.
ValuesOf(ty) ==
    CASE ty = "u8" -> Tag(ty, U8Values)
      [] ty = "i8" -> Tag(ty, I8Values)
      [] ty = "u16" -> Tag(ty, U16Values)
      [] ty = "u32" -> Tag(ty, U32Values)
      [] ty = "i32" -> Tag(ty, U32Values)
      [] ty = "u64" -> Tag(ty, U64Values)
      [] ty = "array" -> Tag(ty, Array4Values \cup Array16Values)
      [] ty = "Stratum" -> Tag(ty, {Stratum_from(x) : x \in U8Values})
      [] ty = "Poll" -> Tag(ty, {Poll_from(x) : x \in I8Values})
      [] ty = "Precision" -> Tag(ty, {Precision_from(x) : x \in I8Values})
      [] ty = "RefId" -> Tag(ty, {RefId_from(x) : x \in Array4Values})
      [] ty = "Digest" -> Tag(ty, {Digest_from(x) : x \in Array16Values})
      [] ty = "NtpShort" -> Tag(ty, {NtpShort_new(x, y) : x, y \in U16Values})
      [] ty = "NtpTimestamp" ->
            Tag(ty, {NtpTimestamp_new(x, y) :
                        x, y \in {<<0, 0>>, <<0, 100>>, <<0, 500>>, <<65535, 65535>>}})
      [] ty = "NtpPacketHeader" -> Tag(ty, HeaderValues)

\* Types with an impl of TryWriteToBytes.
WriteTypes == {"u8", "i8", "u16", "u32", "i32", "u64", "array", "Stratum",
               "Poll", "Precision", "RefId", "Digest", "NtpShort",
               "NtpTimestamp", "NtpPacketHeader"}

\* Types with a fallible constructor from u8.
RangeTypes == {"Leap", "Version", "Mode"}

\* Types with an impl of TryReadFromBytes (Digest has none).
ReadTypes == {"u8", "i8", "u16", "u32", "i32", "u64", "array", "Stratum",
              "Poll", "Precision", "RefId", "NtpShort", "NtpTimestamp",
              "NtpPacketHeader"}

\* The contents of a buffer before the call.
Fills == {"zero", "ones", "ramp"}
FillByte(f, i) ==
    CASE f = "zero" -> 0
      [] f = "ones" -> 255
      [] OTHER -> (i * 37 + 11) % 256
Buffer(f, n) == [i \in 1..n |-> FillByte(f, i)]

\* value.try_write_to_bytes(b), by the type of the value
try_write_to_bytes(x, b) ==
    IF x.ty = "NtpPacketHeader" THEN NtpPacketHeader_try_write_to_bytes(x.v, b)
    ELSE field_try_write_to_bytes(x, b)

\* T::try_read_from_bytes(b), T the type of x
try_read_from_bytes(x, b) ==
    IF x.ty = "NtpPacketHeader" THEN NtpPacketHeader_try_read_from_bytes(b)
    ELSE field_try_read_from_bytes(x, b)

\* T::try_from(u8) and u8::from(T) for the range-restricted types
try_from(x) ==
    CASE x.ty = "Leap" -> Leap_try_from(x.v)
      [] x.ty = "Version" -> Version_try_from(x.v)
      [] x.ty = "Mode" -> Mode_try_from(x.v)

u8_from(ty, t) ==
    CASE ty = "Leap" -> u8_from_Leap(t)
      [] ty = "Version" -> u8_from_Version(t)
      [] ty = "Mode" -> u8_from_Mode(t)

(***************************************************************************)
(* The codec as a state machine: one value, one buffer, and the calls made *)
(* on them.                                                                *)
(***************************************************************************)
NoWrite == [status |-> "none", n |-> 0, err |-> "", bytes |-> <<>>]
NoRead == [status |-> "none", val |-> <<>>, n |-> 0, err |-> ""]
NoValue == [ty |-> "none", v |-> 0]

CodecIdle ==
    /\ value = NoValue
    /\ bytes = <<>>
    /\ before = <<>>
    /\ wr = NoWrite
    /\ rd = NoRead
    /\ rdsrc = "none"
    /\ conv = NoRead
    /\ back = -1
    /\ dest = <<>>
    /\ wb = NoWrite

CodecInit ==
    /\ \/ /\ \E ty \in WriteTypes : value \in ValuesOf(ty)
          /\ \E n \in 0..MaxBufLen, f \in Fills : bytes = Buffer(f, n)
       \/ /\ \E ty \in RangeTypes : value \in Tag(ty, 0..255)
          /\ bytes = <<>>
    /\ before = bytes
    /\ wr = NoWrite
    /\ rd = NoRead
    /\ rdsrc = "none"
    /\ conv = NoRead
    /\ back = -1
    /\ dest = <<>>
    /\ wb = NoWrite

\* value.try_write_to_bytes(&mut bytes)
Write ==
    /\ value.ty \in WriteTypes
    /\ wr.status = "none" /\ rd.status = "none"
    /\ wr' = try_write_to_bytes(value, bytes)
    /\ bytes' = wr'.bytes
    /\ UNCHANGED <<value, before, rd, rdsrc, conv, back, dest, wb>>

\* T::try_read_from_bytes(&bytes) on a buffer nothing was written to
ReadFresh ==
    /\ value.ty \in ReadTypes
    /\ wr.status = "none" /\ rd.status = "none"
    /\ rd' = try_read_from_bytes(value, bytes)
    /\ rdsrc' = "fresh"
    /\ UNCHANGED <<value, bytes, before, wr, conv, back, dest, wb>>

\* T::try_read_from_bytes(&bytes[..n]) after a write that returned Ok(n)
ReadBack ==
    /\ value.ty \in ReadTypes
    /\ wr.status = "ok" /\ rd.status = "none"
    /\ rd' = try_read_from_bytes(value, SubSeq(bytes, 1, wr.n))
    /\ rdsrc' = "back"
    /\ UNCHANGED <<value, bytes, before, wr, conv, back, dest, wb>>

\* T::try_read_from_bytes(&bytes) on the whole destination of a write that
\* returned, with Ok or with Err
ReadAll ==
    /\ value.ty \in ReadTypes
    /\ wr.status \in {"ok", "err"} /\ rd.status = "none"
    /\ rd' = try_read_from_bytes(value, bytes)
    /\ rdsrc' = "all"
    /\ UNCHANGED <<value, bytes, before, wr, conv, back, dest, wb>>

\* T::try_from(v)
TryFrom ==
    /\ value.ty \in RangeTypes
    /\ conv.status = "none"
    /\ conv' = try_from(value)
    /\ UNCHANGED <<value, bytes, before, wr, rd, rdsrc, back, dest, wb>>

\* u8::from(t) of the value try_from returned
IntoU8 ==
    /\ conv.status = "ok" /\ back = -1
    /\ back' = u8_from(value.ty, conv.val[1])
    /\ UNCHANGED <<value, bytes, before, wr, rd, rdsrc, conv, dest, wb>>

\* header.try_write_to_bytes(&mut dest), header the one a read of `bytes`
\* returned, dest another buffer of at least the header's 48 bytes
WriteBack ==
    /\ value.ty = "NtpPacketHeader"
    /\ rdsrc \in {"fresh", "all"} /\ rd.status = "ok"
    /\ wb.status = "none"
    /\ \E n \in 48..MaxBufLen, f \in Fills : dest' = Buffer(f, n)
    /\ wb' = NtpPacketHeader_try_write_to_bytes(rd.val[1], dest')
    /\ UNCHANGED <<value, bytes, before, wr, rd, rdsrc, conv, back>>

(***************************************************************************)
(* Properties of the codec                                                 *)
(***************************************************************************)
IsHeader == value.ty = "NtpPacketHeader"

\* The slice the last read was given.
ReadSource ==
    CASE rdsrc = "back" -> SubSeq(bytes, 1, wr.n)
      [] OTHER -> bytes

\* The two messages with which the codec reports a buffer that is too short.
BufferTooSmall == {BufferTooSmallMsg, NotEnoughSpaceMsg}
ValueOutOfRange == {ValueOutOfRangeLeap, ValueOutOfRangeVersion, ValueOutOfRangeMode}

\* The number of bytes the wire format gives a value of each type.
EncodedWidth(x) ==
    CASE x.ty \in {"u8", "i8", "Stratum", "Poll", "Precision"} -> 1
      [] x.ty = "u16" -> 2
      [] x.ty \in {"u32", "i32", "NtpShort"} -> 4
      [] x.ty \in {"u64", "NtpTimestamp"} -> 8
      [] x.ty = "array" -> Len(x.v)
      [] x.ty = "RefId" -> 4
      [] x.ty = "Digest" -> 16
      [] x.ty = "NtpPacketHeader" -> 48

\* The reference wire layout of a header: 16-bit quantities big-endian.
Be16(q) == <<q \div 256, q % 256>>
TwosComplement(i) == IF i < 0 THEN i + 256 ELSE i
WireLayout(h) ==
    <<h.leap_indicator.f0 * 64 + h.version_number.f0 * 8 + h.mode.f0,
      h.stratum.f0, TwosComplement(h.poll.f0), TwosComplement(h.precision.f0)>>
    \o Be16(h.rootdelay.f0[1]) \o Be16(h.rootdelay.f0[2])
    \o Be16(h.rootdisp.f0[1]) \o Be16(h.rootdisp.f0[2])
    \o h.refid.f0
    \o Be16(h.reftime.f0[1]) \o Be16(h.reftime.f0[2])
    \o Be16(h.reftime.f0[3]) \o Be16(h.reftime.f0[4])
    \o Be16(h.org.f0[1]) \o Be16(h.org.f0[2])
    \o Be16(h.org.f0[3]) \o Be16(h.org.f0[4])
    \o Be16(h.rec.f0[1]) \o Be16(h.rec.f0[2])
    \o Be16(h.rec.f0[3]) \o Be16(h.rec.f0[4])
    \o Be16(h.xmt.f0[1]) \o Be16(h.xmt.f0[2])
    \o Be16(h.xmt.f0[3]) \o Be16(h.xmt.f0[4])

\* C1: writing a header into a destination of at least 48 bytes returns
\* Ok(48), and reading those 48 bytes back returns a header equal to the one
\* written together with a consumed count of 48.
C1_RoundTrip ==
    (IsHeader /\ Len(before) >= 48 /\ wr.status # "none") =>
        /\ wr.status = "ok" /\ wr.n = 48
        /\ rdsrc = "back" =>
              /\ rd.status = "ok"
              /\ rd.val[1] = value.v
              /\ rd.n = 48

\* C1 witness: a header with negative exponents and full-width timestamps
\* was written into a 50-byte destination and read back.
C1_Witness ==
    /\ IsHeader /\ Len(before) = 50 /\ rdsrc = "back" /\ rd.status = "ok"
    /\ value.v.precision.f0 = -128
    /\ value.v.reftime.f0 = <<57005, 48879, 258, 772>>

\* C2: the bytes a successful header write produces are the reference wire
\* layout, 48 of them; leap 0, version 4, mode 3 give 0x23 in byte 0,
\* NtpShort::new(1, 0) encodes to [0,1,0,0] and NtpTimestamp::new(100, 500)
\* to [0,0,0,100,0,0,1,244].
C2_WireLayout ==
    /\ (IsHeader /\ wr.status = "ok") =>
          /\ wr.n = 48
          /\ SubSeq(bytes, 1, wr.n) = WireLayout(value.v)
          /\ (value.v.leap_indicator.f0 = 0 /\ value.v.version_number.f0 = 4
                /\ value.v.mode.f0 = 3) => bytes[1] = 35
    /\ (value.ty = "NtpShort" /\ wr.status = "ok") =>
          (value.v = NtpShort_new(1, 0) => SubSeq(bytes, 1, wr.n) = <<0, 1, 0, 0>>)
    /\ (value.ty = "NtpTimestamp" /\ wr.status = "ok") =>
          (value.v = NtpTimestamp_new(<<0, 100>>, <<0, 500>>)
              => SubSeq(bytes, 1, wr.n) = <<0, 0, 0, 100, 0, 0, 1, 244>>)

\* C2 witness: the header of the repository's test was written over a
\* buffer of 0xFF bytes and produced the bytes the test expects.
C2_Witness ==
    /\ IsHeader /\ wr.status = "ok" /\ before[1] = 255
    /\ SubSeq(bytes, 1, 48) =
         <<35, 1, 6, 238, 0, 1, 0, 0, 0, 0, 0, 100, 1, 2, 3, 4,
           0, 0, 0, 100, 0, 0, 1, 244, 0, 0, 0, 200, 0, 0, 0, 200,
           0, 0, 0, 50, 0, 0, 0, 100, 0, 0, 0, 10, 0, 0, 3, 232>>

\* C3: for every codec type, a write into and a read from a buffer shorter
\* than the type's encoded width returns the buffer-too-small error; no such
\* call panics.
C3_ShortBufferFails ==
    /\ (wr.status # "none" /\ Len(before) < EncodedWidth(value)) =>
          (wr.status = "err" /\ wr.err \in BufferTooSmall)
    /\ (rdsrc # "none" /\ Len(ReadSource) < EncodedWidth(value)) =>
          (rd.status = "err" /\ rd.err \in BufferTooSmall)

\* C4 as claimed: a write that fails because the destination is too short
\* leaves every byte of the destination as it was.
C4_FailedWriteChangesNothing ==
    (wr.status = "err" /\ wr.err \in BufferTooSmall) => bytes = before

\* The fields of a header end at these offsets.
FieldEnds == {0, 1, 2, 3, 4, 8, 12, 16, 24, 32, 40, 48}
\* The end of the last field that fits whole into n bytes.
FittingPrefix(n) ==
    CHOOSE k \in FieldEnds : k <= n /\ \A j \in FieldEnds : j <= n => j <= k

\* C4 amended: a write that returns the buffer-too-small error leaves the
\* destination unchanged for a primitive or a field type; for a header it
\* leaves in the destination the encoding of the leading fields that fit
\* whole and changes no byte from the first field that does not fit on.
C4_FailedWriteKeepsTail ==
    (wr.status = "err" /\ wr.err \in BufferTooSmall) =>
        /\ Len(bytes) = Len(before)
        /\ ~IsHeader => bytes = before
        /\ IsHeader =>
              LET k == FittingPrefix(Len(before))
              IN  /\ SubSeq(bytes, 1, k) = SubSeq(WireLayout(value.v), 1, k)
                  /\ SubSeq(bytes, k + 1, Len(bytes)) = SubSeq(before, k + 1, Len(before))

\* C4 witness: a header write into 18 bytes returned the error after it
\* wrote the 16 bytes of the fields before the first timestamp.
C4_Witness ==
    /\ IsHeader /\ wr.status = "err" /\ wr.err \in BufferTooSmall
    /\ Len(before) = 18
    /\ SubSeq(bytes, 1, 16) # SubSeq(before, 1, 16)

\* C5: a header read succeeds exactly when the source holds at least 48
\* bytes; with fewer it returns the buffer-too-small error, with 48 or more
\* a header and the count 48, and never a value-out-of-range error.
C5_ReadIffFortyEight ==
    (IsHeader /\ rdsrc # "none") =>
        /\ Len(ReadSource) < 48 =>
              /\ rd.status = "err" /\ rd.err \in BufferTooSmall
              /\ rd.val = <<>>
        /\ Len(ReadSource) >= 48 =>
              /\ rd.status = "ok" /\ rd.n = 48
              /\ DOMAIN rd.val[1] = DOMAIN value.v
        /\ rd.err \notin ValueOutOfRange

\* C5 witness: a 50-byte source whose first byte has all leap, version and
\* mode bits set was read.
C5_Witness ==
    /\ IsHeader /\ rdsrc # "none" /\ Len(ReadSource) = 50
    /\ ReadSource[1] = 255 /\ rd.status = "ok"

\* The largest value each range-restricted type accepts.
RangeLimit(ty) == IF ty = "Leap" THEN 3 ELSE 7
RangeMsg(ty) ==
    CASE ty = "Leap" -> ValueOutOfRangeLeap
      [] ty = "Version" -> ValueOutOfRangeVersion
      [] ty = "Mode" -> ValueOutOfRangeMode

\* C6: Leap::try_from accepts exactly 0..3, Version and Mode ::try_from
\* exactly 0..7, every other u8 is rejected with the value-out-of-range
\* error, and converting an accepted value back to u8 returns it.
C6_RangeCheck ==
    (value.ty \in RangeTypes /\ conv.status # "none") =>
        /\ conv.status = "ok" <=> value.v <= RangeLimit(value.ty)
        /\ conv.status # "ok" => (conv.status = "err" /\ conv.err = RangeMsg(value.ty))
        /\ back # -1 => back = value.v

\* C6 witness: Mode::try_from(7) was accepted and converted back to 7.
C6_Witness ==
    value.ty = "Mode" /\ value.v = 7 /\ conv.status = "ok" /\ back = 7

(***************************************************************************)
(* client.rs: NtpClient::get_offset, one step per statement.  `pc` names   *)
(* the statement to execute next.  The transport and the clock are the     *)
(* environment: each call returns one of the results its signature allows. *)
(***************************************************************************)
\* let mut buffer = [0u8; 100];
BufferSize == 100

\* The request header of get_offset.
ntp_transmit_message ==
    [leap_indicator |-> NTP_LEAP_NO_WARNING,
     version_number |-> NTP_VERSION_4,
     mode |-> NTP_MODE_CLIENT,
     stratum |-> Stratum_from(0),
     poll |-> Poll_from(0),
     precision |-> Precision_from(0),
     rootdelay |-> NtpShort_new(0, 0),
     rootdisp |-> NtpShort_new(0, 0),
     refid |-> RefId_from(<<0, 0, 0, 0>>),
     reftime |-> NtpTimestamp_new(<<0, 0>>, <<0, 0>>),
     org |-> NtpTimestamp_new(<<0, 0>>, <<0, 0>>),
     rec |-> NtpTimestamp_new(<<0, 0>>, <<0, 0>>),
     xmt |-> NtpTimestamp_new(<<0, 0>>, <<0, 0>>)]

\* Variant: the request is sent before the send time is sampled.
After_SendFirst(stmt) ==
    CASE stmt = "encode" -> "send_to"
      [] stmt = "send_to" -> "sample_send_time"
      [] stmt = "sample_send_time" -> "recv_from"
      [] stmt = "recv_from" -> "sample_recv_time"
      [] stmt = "sample_recv_time" -> "decode"
      [] stmt = "decode" -> "compute"
      [] stmt = "compute" -> "done"

\* Variant: the request is sent again after a receive (a retry).
After_Retry(stmt) ==
    CASE stmt = "encode" -> "sample_send_time"
      [] stmt = "sample_send_time" -> "send_to"
      [] stmt = "send_to" -> "recv_from"
      [] stmt = "recv_from" -> "send_to"
      [] stmt = "sample_recv_time" -> "decode"
      [] stmt = "decode" -> "compute"
      [] stmt = "compute" -> "done"

\* The statements of get_offset in program order.
After(stmt) ==
    CASE stmt = "encode" -> "sample_send_time"
      [] stmt = "sample_send_time" -> "send_to"
      [] stmt = "send_to" -> "recv_from"
      [] stmt = "recv_from" -> "sample_recv_time"
      [] stmt = "sample_recv_time" -> "decode"
      [] stmt = "decode" -> "compute"
      [] stmt = "compute" -> "done"

\* Datagrams the server side may answer with: a server header carrying
\* rec (T2) and xmt (T3), cut short, whole, or followed by more bytes.
ServerHeaders ==
    { [ntp_transmit_message EXCEPT
          !.mode = Mode_try_from(4).val[1],
          !.stratum = Stratum_from(2),
          !.org = NtpTimestamp_new(<<0, 1>>, <<0, 0>>),
          !.rec = NtpTimestamp_new(<<0, t[1]>>, <<0, 0>>),
          !.xmt = NtpTimestamp_new(<<0, t[2]>>, <<32768, 0>>)] :
      t \in {<<5, 6>>, <<7, 7>>} }
ReplyLengths == {0, 1, 20, 47, 48, 68, 120}
Replies ==
    { LET full == NtpPacketHeader_try_write_to_bytes(h, Buffer("ones", 120)).bytes
      IN  SubSeq(full, 1, n) : h \in ServerHeaders, n \in ReplyLengths }

Running == [kind |-> "running", stage |-> "", offset |-> 0]
Panic(stage) == [kind |-> "panic", stage |-> stage, offset |-> 0]
NoPacket == <<>>

ClientIdle ==
    /\ pc = "idle"
    /\ buffer = <<>>
    /\ serialized_size = 0
    /\ send_time = -1
    /\ recv_time = -1
    /\ recv_size = 0
    /\ packet = NoPacket
    /\ outcome = Running
    /\ wire = <<>>
    /\ reply = <<>>
    /\ log = <<>>

\* The state at the call of get_offset: nothing sent, nothing sampled.
ClientInit ==
    /\ pc = "encode"
    /\ buffer = <<>>
    /\ serialized_size = 0
    /\ send_time = -1
    /\ recv_time = -1
    /\ recv_size = 0
    /\ packet = NoPacket
    /\ outcome = Running
    /\ wire = <<>>
    /\ reply = <<>>
    /\ log = <<>>

\* A panic (a failed unwrap, todo!()) ends get_offset without a return value.
Abort(stage) ==
    /\ pc' = "done"
    /\ outcome' = Panic(stage)

\* let mut buffer = [0u8; 100];
\* let serialized_size = ntp_transmit_message.try_write_to_bytes(&mut buffer).unwrap();
Encode ==
    /\ pc = "encode"
    /\ LET r == NtpPacketHeader_try_write_to_bytes(ntp_transmit_message,
                                                   [i \in 1..BufferSize |-> 0])
       IN  /\ buffer' = r.bytes
           /\ IF r.status = "ok"
              THEN /\ serialized_size' = r.n
                   /\ pc' = After("encode")
                   /\ outcome' = outcome
              ELSE /\ serialized_size' = serialized_size
                   /\ Abort("encode")
    /\ log' = Append(log, "encode")
    /\ UNCHANGED <<send_time, recv_time, recv_size, packet, wire, reply>>

\* let send_time = SystemTime::now().duration_since(UNIX_EPOCH).unwrap();
\* The clock reads some time; a reading before UNIX_EPOCH is the Err that
\* unwrap turns into a panic.
SampleSendTime ==
    /\ pc = "sample_send_time"
    /\ \/ \E t \in 0..MaxTime :
            /\ send_time' = t
            /\ pc' = After("sample_send_time")
            /\ outcome' = outcome
       \/ /\ send_time' = send_time
          /\ Abort("sample_send_time")
    /\ log' = Append(log, "sample_send_time")
    /\ UNCHANGED <<buffer, serialized_size, recv_time, recv_size, packet, wire, reply>>

\* Variant: the whole working buffer is handed to the transport.
RequestSlice_Whole(buf, size) == buf

\* &buffer[..serialized_size]
RequestSlice(buf, size) == SubSeq(buf, 1, size)

\* self.udp_socket.send_to(&buffer[..serialized_size], self.server).unwrap();
SendTo ==
    /\ pc = "send_to"
    /\ \/ /\ wire' = RequestSlice(buffer, serialized_size)
          /\ pc' = After("send_to")
          /\ outcome' = outcome
       \/ /\ wire' = wire
          /\ Abort("send_to")
    /\ log' = Append(log, "send_to")
    /\ UNCHANGED <<buffer, serialized_size, send_time, recv_time, recv_size, packet, reply>>

\* let (recv_size, _) = self.udp_socket.recv_from(&mut buffer).unwrap();
\* A datagram longer than the buffer is cut to the buffer.
RecvFrom ==
    /\ pc = "recv_from"
    /\ \/ \E d \in Replies :
            LET n == IF Len(d) < Len(buffer) THEN Len(d) ELSE Len(buffer)
            IN  /\ reply' = d
                /\ recv_size' = n
                /\ buffer' = [i \in 1..Len(buffer) |-> IF i <= n THEN d[i] ELSE buffer[i]]
                /\ pc' = After("recv_from")
                /\ outcome' = outcome
       \/ /\ UNCHANGED <<reply, recv_size, buffer>>
          /\ Abort("recv_from")
    /\ log' = Append(log, "recv_from")
    /\ UNCHANGED <<serialized_size, send_time, recv_time, packet, wire>>

\* std::time::SystemTime::now().duration_since(UNIX_EPOCH).unwrap();
\* The value of the expression statement is dropped; recv_time holds what it
\* evaluated to.
SampleRecvTime ==
    /\ pc = "sample_recv_time"
    /\ \/ \E t \in 0..MaxTime :
            /\ recv_time' = t
            /\ pc' = After("sample_recv_time")
            /\ outcome' = outcome
       \/ /\ recv_time' = recv_time
          /\ Abort("sample_recv_time")
    /\ log' = Append(log, "sample_recv_time")
    /\ UNCHANGED <<buffer, serialized_size, send_time, recv_size, packet, wire, reply>>

\* Variant: the reply is decoded from the whole working buffer.
ReplySlice_Whole(buf, size) == buf

\* &buffer[..recv_size]
ReplySlice(buf, size) == SubSeq(buf, 1, size)

\* let (packet, _) = NtpPacketHeader::try_read_from_bytes(&buffer[..recv_size]).unwrap();
Decode ==
    /\ pc = "decode"
    /\ LET r == NtpPacketHeader_try_read_from_bytes(ReplySlice(buffer, recv_size))
       IN  IF r.status = "ok"
           THEN /\ packet' = <<r.val[1]>>
                /\ pc' = After("decode")
                /\ outcome' = outcome
           ELSE /\ packet' = packet
                /\ Abort("decode")
    /\ log' = Append(log, "decode")
    /\ UNCHANGED <<buffer, serialized_size, send_time, recv_time, recv_size, wire, reply>>

\* let server_transmission_time = packet.xmt;
\* let server_reception_time = packet.rec;
\* println!(...);
\* todo!()
Compute ==
    /\ pc = "compute"
    /\ Abort("compute")
    /\ log' = Append(log, "compute")
    /\ UNCHANGED <<buffer, serialized_size, send_time, recv_time, recv_size, packet, wire, reply>>

(***************************************************************************)
(* Specifications                                                          *)
(***************************************************************************)
Init == CodecInit /\ ClientIdle

Next ==
    \/ Write /\ UNCHANGED clientVars
    \/ ReadFresh /\ UNCHANGED clientVars
    \/ ReadBack /\ UNCHANGED clientVars
    \/ ReadAll /\ UNCHANGED clientVars
    \/ WriteBack /\ UNCHANGED clientVars
    \/ TryFrom /\ UNCHANGED clientVars
    \/ IntoU8 /\ UNCHANGED clientVars

Spec == Init /\ [][Next]_vars

InitExchange == CodecIdle /\ ClientInit

NextExchange ==
    \/ Encode /\ UNCHANGED codecVars
    \/ SampleSendTime /\ UNCHANGED codecVars
    \/ SendTo /\ UNCHANGED codecVars
    \/ RecvFrom /\ UNCHANGED codecVars
    \/ SampleRecvTime /\ UNCHANGED codecVars
    \/ Decode /\ UNCHANGED codecVars
    \/ Compute /\ UNCHANGED codecVars

SpecExchange == InitExchange /\ [][NextExchange]_vars

(***************************************************************************)
(* Properties of the exchange                                              *)
(***************************************************************************)
\* Whole seconds of an NtpTimestamp.
Seconds(ts) == ts.f0[1] * 65536 + ts.f0[2]

Decoded == packet # NoPacket

\* C7: an exchange whose reply was decoded ends with a result whose offset
\* is ((T2 - T1) + (T3 - T4)) / 2, T1 = send_time, T4 the time sampled
\* after the receive, T2 = packet.rec, T3 = packet.xmt.
C7_OffsetFormula ==
    (pc = "done" /\ Decoded) =>
        /\ outcome.kind = "returned"
        /\ 2 * outcome.offset =
              (Seconds(packet[1].rec) - send_time)
              + (Seconds(packet[1].xmt) - recv_time)

\* C8: an exchange whose send succeeded, whose receive delivered a reply and
\* whose reply decoded does not end in a panic: it ends by returning.
C8_DecodedExchangeReturns ==
    Decoded => (outcome.kind # "panic" /\ (pc = "done" => outcome.kind = "returned"))

\* C9: an error of the encode, of the transport send, of the transport
\* receive or of the decode ends the exchange with an error value, never
\* with a panic.
C9_ErrorsAreReturned ==
    (pc = "done" /\ outcome.stage \in {"encode", "send_to", "recv_from", "decode"})
        => outcome.kind = "err"

\* C10: the send time is sampled before the request is handed to the
\* transport and never after it; the receive time is sampled only after the
\* transport receive returned a reply and never before it.
C10_SampleOrder ==
    /\ \A i \in 1..Len(log) :
          /\ log[i] = "send_to" => \E j \in 1..(i - 1) : log[j] = "sample_send_time"
          /\ log[i] = "sample_send_time" => \A j \in 1..(i - 1) : log[j] # "send_to"
          /\ log[i] = "sample_recv_time" => \E j \in 1..(i - 1) : log[j] = "recv_from"
          /\ log[i] = "recv_from" => \A j \in 1..(i - 1) : log[j] # "sample_recv_time"
    /\ wire # <<>> => send_time # -1
    /\ recv_time # -1 => (reply \in Replies /\ recv_size <= Len(reply))

\* C10 witness: the request left at local time 0 and the receive time 10
\* was sampled after a 48-byte reply arrived.
C10_Witness ==
    /\ pc = "decode" /\ send_time = 0 /\ recv_time = 10
    /\ Len(wire) = 48 /\ Len(reply) = 48

\* The call `e` was made, and it did not end the exchange with a panic.
Returned(e) ==
    /\ \E i \in 1..Len(log) : log[i] = e
    /\ outcome.stage # e

\* The number of calls `e` made so far.
Calls(e) == Cardinality({i \in 1..Len(log) : log[i] = e})

\* C11: the bytes handed to the transport are the 48-byte encoding of the
\* request header, 0x23 followed by 47 zero bytes, and nothing of the
\* working buffer beyond them.
C11_RequestOnWire ==
    Returned("send_to") => wire = [i \in 1..48 |-> IF i = 1 THEN 35 ELSE 0]

\* C11 witness: the request was handed to the transport out of the
\* 100-byte working buffer and the exchange waits for the reply.
C11_Witness ==
    /\ pc = "recv_from" /\ Returned("send_to")
    /\ Len(buffer) = 100 /\ Len(wire) = 48 /\ wire[1] = 35

\* C12: in one exchange the transport sends at most once and receives at
\* most once, in the order encode, send, receive, decode: a receive is
\* issued only after the send succeeded, a decode only after the receive
\* delivered a reply, and nothing is sent after a receive.
C12_OneRequestInOrder ==
    /\ Calls("send_to") <= 1
    /\ Calls("recv_from") <= 1
    /\ \A i \in 1..Len(log) :
          /\ log[i] = "send_to" =>
                /\ \E j \in 1..(i - 1) : log[j] = "encode"
                /\ \A j \in 1..(i - 1) : log[j] # "recv_from"
          /\ log[i] = "recv_from" =>
                /\ \E j \in 1..(i - 1) : log[j] = "send_to"
                /\ wire # <<>>
          /\ log[i] = "decode" =>
                /\ \E j \in 1..(i - 1) : log[j] = "recv_from"
                /\ reply \in Replies

\* C12 witness: an exchange ran through encode, send, receive and decode.
C12_Witness ==
    /\ pc = "done" /\ Decoded
    /\ Calls("send_to") = 1 /\ Calls("recv_from") = 1 /\ Calls("decode") = 1

\* C13: the reply header is decoded from the received bytes alone: a reply
\* of fewer than 48 bytes never yields a packet although the buffer still
\* holds request bytes behind it, and a decoded packet is the one the first
\* 48 bytes of the reply lay out, so rec (T2) and xmt (T3) are the reply's.
C13_DecodeOnlyReceived ==
    /\ (Returned("recv_from") /\ recv_size < 48) =>
          /\ ~Decoded
          /\ \A i \in 1..Len(log) : log[i] = "decode" =>
                (pc = "done" /\ outcome.stage = "decode")
    /\ Decoded =>
          /\ Len(reply) >= 48 /\ recv_size >= 48
          /\ WireLayout(packet[1]) = SubSeq(reply, 1, 48)

\* C13 witness: a 20-byte reply was received into the buffer, whose bytes
\* 21..48 are still those of the request, and the decode failed.
C13_Witness ==
    /\ Len(reply) = 20 /\ recv_size = 20
    /\ pc = "done" /\ outcome.stage = "decode" /\ ~Decoded
    /\ SubSeq(buffer, 21, 48) = SubSeq(wire, 21, 48)

(***************************************************************************)
(* Properties of decode followed by encode                                 *)
(***************************************************************************)
\* C14: for a source of at least 48 bytes, encoding the header read from it
\* returns Ok(48) and reproduces the first 48 bytes of the source byte for
\* byte, whatever follows them in the source, and leaves the destination
\* from index 48 on as it was.
C14_ReencodeReproduces ==
    wb.status # "none" =>
        /\ Len(bytes) >= 48
        /\ wb.status = "ok" /\ wb.n = 48
        /\ SubSeq(wb.bytes, 1, 48) = SubSeq(bytes, 1, 48)
        /\ Len(wb.bytes) = Len(dest)
        /\ \A i \in 49..Len(dest) : wb.bytes[i] = dest[i]

\* C14 witness: a 50-byte source of mixed bytes was read and the header
\* encoded into a 50-byte destination of 0xFF bytes.
C14_Witness ==
    /\ wb.status = "ok" /\ rdsrc = "fresh"
    /\ Len(bytes) = 50 /\ bytes[1] = 48 /\ bytes[4] = 159
    /\ Len(dest) = 50 /\ dest[50] = 255 /\ wb.bytes[1] = 48

====
